---- MODULE Spec2Model ----
(***************************************************************************)
(* A model of micromodels (src/micromodels/fields.py, models.py): fields   *)
(* that convert raw values to canonical Python values and back, and Model  *)
(* instances whose attribute assignment is routed through those fields.    *)
(*                                                                         *)
(* Python values are tagged records.  A string is a sequence of one-       *)
(* character strings, so that str(), int(), strptime() and strftime() are  *)
(* computed and not assumed.  A float is kept as a whole number of tenths. *)
(* A dict is a function from keys to values; the two dicts whose iteration *)
(* order the code depends on (a class's _clsfields) are sequences of       *)
(* key/field pairs.  An exception is the name of its class, "none" when    *)
(* nothing was raised.                                                     *)
(***************************************************************************)
EXTENDS Integers, Sequences, FiniteSets, TLC

VARIABLES
    clsfields,  \* class name -> its _clsfields dict, in iteration order
    data,       \* field object -> its scratch attribute self.data
    objs,       \* instance slot -> the instance living there, or NoInst
    outcome,    \* the last call made on the library and how it ended
    pool,       \* the field object the program made outside any class body
    pc,         \* thread -> where it stands inside Model.__setattr__
    job         \* thread -> the assignment it is carrying out

vars == <<clsfields, data, objs, outcome, pool, pc, job>>

(***************************************************************************)
(* Python values                                                           *)
(***************************************************************************)
None == [t |-> "None"]
PyStr(s) == [t |-> "str", s |-> s]
PyInt(i) == [t |-> "int", i |-> i]
PyBool(b) == [t |-> "bool", b |-> b]
PyFloat(tenths) == [t |-> "float", f |-> tenths]
DateTime(Y, m, d, H, M, S) ==
    [t |-> "datetime", Y |-> Y, m |-> m, d |-> d, H |-> H, M |-> M, S |-> S]
Date(Y, m, d) == [t |-> "date", Y |-> Y, m |-> m, d |-> d]
Time(H, M, S) == [t |-> "time", H |-> H, M |-> M, S |-> S]
List(s) == [t |-> "list", s |-> s]
Dict(m) == [t |-> "dict", m |-> m]
Inst(cls, d) == [t |-> "inst", cls |-> cls, d |-> d]
EmptyMap == [k \in {} |-> None]

\* An attribute that was never set (self.data before the first populate).
Unset == [t |-> "unset"]

\* The outcome of a call: the exception raised ("none": it returned), the value
\* returned, and the scratch attributes of all field objects afterwards.
Ret(v, dat) == [exc |-> "none", v |-> v, data |-> dat]
Raise(e, dat) == [exc |-> e, v |-> None, data |-> dat]

(***************************************************************************)
(* Characters and numbers                                                  *)
(***************************************************************************)
Digits == <<"0", "1", "2", "3", "4", "5", "6", "7", "8", "9">>
IsDigit(c) == \E i \in 1..10 : Digits[i] = c
DigitVal(c) == (CHOOSE i \in 1..10 : Digits[i] = c) - 1
Upper == <<"A","B","C","D","E","F","G","H","I","J","K","L","M",
           "N","O","P","Q","R","S","T","U","V","W","X","Y","Z">>
Lower == <<"a","b","c","d","e","f","g","h","i","j","k","l","m",
           "n","o","p","q","r","s","t","u","v","w","x","y","z">>
LowerChar(c) ==
    IF \E i \in 1..26 : Upper[i] = c
    THEN Lower[CHOOSE i \in 1..26 : Upper[i] = c] ELSE c
\* unicode.lower()
StrLower(s) == [i \in 1..Len(s) |-> LowerChar(s[i])]
IsSpace(c) == c = " "
RECURSIVE LStrip(_)
LStrip(s) == IF s # <<>> /\ IsSpace(Head(s)) THEN LStrip(Tail(s)) ELSE s
RECURSIVE RStrip(_)
RStrip(s) ==
    IF s # <<>> /\ IsSpace(s[Len(s)]) THEN RStrip(SubSeq(s, 1, Len(s) - 1)) ELSE s
\* unicode.strip()
StrStrip(s) == RStrip(LStrip(s))

RECURSIVE NatStr(_)
NatStr(n) == IF n < 10 THEN <<Digits[n + 1]>>
             ELSE NatStr(n \div 10) \o <<Digits[(n % 10) + 1]>>
IntStr(i) == IF i < 0 THEN <<"-">> \o NatStr(0 - i) ELSE NatStr(i)
Pad2(n) == <<Digits[(n \div 10) + 1], Digits[(n % 10) + 1]>>
Pad4(n) == Pad2(n \div 100) \o Pad2(n % 100)
AllDigits(s) == s # <<>> /\ \A i \in 1..Len(s) : IsDigit(s[i])
RECURSIVE DigitsVal(_)
DigitsVal(s) == IF s = <<>> THEN 0
                ELSE 10 * DigitsVal(SubSeq(s, 1, Len(s) - 1)) + DigitVal(s[Len(s)])
\* repr of a float kept in tenths: "1.5", "-0.5"
FloatStr(f) ==
    LET a == IF f < 0 THEN 0 - f ELSE f
    IN  (IF f < 0 THEN <<"-">> ELSE <<>>) \o NatStr(a \div 10) \o <<".">>
            \o <<Digits[(a % 10) + 1]>>

\* int(text): optional blanks around an optional sign and decimal digits.
ParseInt(s) ==
    LET b == StrStrip(s)
        neg == b # <<>> /\ Head(b) = "-"
        u == IF b # <<>> /\ Head(b) \in {"-", "+"} THEN Tail(b) ELSE b
    IN  IF AllDigits(u)
        THEN [ok |-> TRUE, n |-> IF neg THEN 0 - DigitsVal(u) ELSE DigitsVal(u)]
        ELSE [ok |-> FALSE, n |-> 0]

\* float(text), in tenths: digits, or digits "." one digit (the inputs drawn
\* below carry at most one fractional digit).
ParseFloat(s) ==
    LET b == StrStrip(s)
        neg == b # <<>> /\ Head(b) = "-"
        u == IF b # <<>> /\ Head(b) \in {"-", "+"} THEN Tail(b) ELSE b
        n == Len(u)
        frac == n >= 3 /\ u[n - 1] = "." /\ IsDigit(u[n]) /\ AllDigits(SubSeq(u, 1, n - 2))
        mag == IF frac THEN 10 * DigitsVal(SubSeq(u, 1, n - 2)) + DigitVal(u[n])
               ELSE 10 * DigitsVal(u)
    IN  IF frac \/ AllDigits(u)
        THEN [ok |-> TRUE, f |-> IF neg THEN 0 - mag ELSE mag]
        ELSE [ok |-> FALSE, f |-> 0]

(***************************************************************************)
(* The datetime module: str(), isoformat(), strftime() and strptime().     *)
(* A format is a sequence of directives ("%Y", "%m", "%d", "%H", "%M",     *)
(* "%S") and literal characters.                                           *)
(***************************************************************************)
IsoDate(v) == Pad4(v.Y) \o <<"-">> \o Pad2(v.m) \o <<"-">> \o Pad2(v.d)
IsoTime(v) == Pad2(v.H) \o <<":">> \o Pad2(v.M) \o <<":">> \o Pad2(v.S)
\* datetime.isoformat(sep), date.isoformat(), time.isoformat()
isoformat(v, sep) ==
    CASE v.t = "datetime" -> IsoDate(v) \o <<sep>> \o IsoTime(v)
      [] v.t = "date" -> IsoDate(v)
      [] v.t = "time" -> IsoTime(v)

\* What strftime reads: a date has no clock, a time has the date 1900-01-01.
TimeTuple(v) ==
    CASE v.t = "datetime" -> v
      [] v.t = "date" -> DateTime(v.Y, v.m, v.d, 0, 0, 0)
      [] v.t = "time" -> DateTime(1900, 1, 1, v.H, v.M, v.S)
Directive(tok, tt) ==
    CASE tok = "%Y" -> Pad4(tt.Y)
      [] tok = "%m" -> Pad2(tt.m)
      [] tok = "%d" -> Pad2(tt.d)
      [] tok = "%H" -> Pad2(tt.H)
      [] tok = "%M" -> Pad2(tt.M)
      [] tok = "%S" -> Pad2(tt.S)
      [] OTHER -> <<tok>>
RECURSIVE FormatWith(_, _)
FormatWith(fmt, tt) ==
    IF fmt = <<>> THEN <<>> ELSE Directive(Head(fmt), tt) \o FormatWith(Tail(fmt), tt)
strftime(v, fmt) == FormatWith(fmt, TimeTuple(v))

\* The range _strptime's regular expression accepts for a directive.
DirLo(tok) == IF tok \in {"%m", "%d"} THEN 1 ELSE 0
DirHi(tok) ==
    CASE tok = "%Y" -> 9999
      [] tok = "%m" -> 12
      [] tok = "%d" -> 31
      [] tok = "%H" -> 23
      [] tok = "%M" -> 59
      [] tok = "%S" -> 61
DirField(tok) ==
    CASE tok = "%Y" -> "Y" [] tok = "%m" -> "m" [] tok = "%d" -> "d"
      [] tok = "%H" -> "H" [] tok = "%M" -> "M" [] tok = "%S" -> "S"
IsDirective(tok) == tok \in {"%Y", "%m", "%d", "%H", "%M", "%S"}
\* How many characters of s the directive takes: four digits for %Y, else two
\* digits when they form a value in range and one digit otherwise; 0: no match.
DirWidth(tok, s) ==
    LET two == Len(s) >= 2 /\ IsDigit(s[1]) /\ IsDigit(s[2])
                 /\ DigitsVal(SubSeq(s, 1, 2)) \in DirLo(tok)..DirHi(tok)
        one == Len(s) >= 1 /\ IsDigit(s[1]) /\ DigitVal(s[1]) \in DirLo(tok)..DirHi(tok)
    IN  IF tok = "%Y"
        THEN (IF Len(s) >= 4 /\ AllDigits(SubSeq(s, 1, 4)) THEN 4 ELSE 0)
        ELSE IF two THEN 2 ELSE IF one THEN 1 ELSE 0
\* Matches the whole of s against fmt, filling acc; a mismatch and unconverted
\* data both fail (ValueError in datetime.strptime).
RECURSIVE ParseWith(_, _, _)
ParseWith(s, fmt, acc) ==
    IF fmt = <<>> THEN [ok |-> s = <<>>, v |-> acc]
    ELSE LET tok == Head(fmt) IN
         IF IsDirective(tok)
         THEN LET w == DirWidth(tok, s) IN
              IF w = 0 THEN [ok |-> FALSE, v |-> acc]
              ELSE ParseWith(SubSeq(s, w + 1, Len(s)), Tail(fmt),
                             [acc EXCEPT ![DirField(tok)] = DigitsVal(SubSeq(s, 1, w))])
         ELSE IF s # <<>> /\ Head(s) = tok
              THEN ParseWith(Tail(s), Tail(fmt), acc)
              ELSE [ok |-> FALSE, v |-> acc]
\* datetime.datetime.strptime(s, fmt); fields the format lacks are 1900-01-01 00:00:00
strptime(s, fmt) == ParseWith(s, fmt, DateTime(1900, 1, 1, 0, 0, 0))

(***************************************************************************)
(* Python built-ins on values                                              *)
(***************************************************************************)
\* Truth value of x in "x or y" and bool(x).  A Model instance defines neither
\* __nonzero__ nor __len__ and is true; a time at midnight is false (Python 2).
Truthy(v) ==
    CASE v.t = "None" -> FALSE
      [] v.t = "bool" -> v.b
      [] v.t = "int" -> v.i # 0
      [] v.t = "float" -> v.f # 0
      [] v.t = "str" -> v.s # <<>>
      [] v.t = "list" -> v.s # <<>>
      [] v.t = "dict" -> DOMAIN v.m # {}
      [] v.t = "time" -> ~(v.H = 0 /\ v.M = 0 /\ v.S = 0)
      [] OTHER -> TRUE
\* x or y
PyOr(x, y) == IF Truthy(x) THEN x ELSE y

\* str(v) and unicode(v), as characters.  The repr of a container or of an
\* instance is kept as one opaque character: nothing below parses it.
PyToStr(v) ==
    CASE v.t = "str" -> v.s
      [] v.t = "None" -> <<"N", "o", "n", "e">>
      [] v.t = "bool" -> IF v.b THEN <<"T", "r", "u", "e">> ELSE <<"F", "a", "l", "s", "e">>
      [] v.t = "int" -> IntStr(v.i)
      [] v.t = "float" -> FloatStr(v.f)
      [] v.t = "datetime" -> isoformat(v, " ")
      [] v.t \in {"date", "time"} -> isoformat(v, "T")
      [] OTHER -> <<"<object>">>

\* int(v): [exc, v]
PyIntOf(v) ==
    CASE v.t = "int" -> [exc |-> "none", v |-> v]
      [] v.t = "bool" -> [exc |-> "none", v |-> PyInt(IF v.b THEN 1 ELSE 0)]
      [] v.t = "float" ->
            [exc |-> "none",
             v |-> PyInt(IF v.f < 0 THEN 0 - ((0 - v.f) \div 10) ELSE v.f \div 10)]
      [] v.t = "str" ->
            LET r == ParseInt(v.s) IN
            IF r.ok THEN [exc |-> "none", v |-> PyInt(r.n)]
            ELSE [exc |-> "ValueError", v |-> None]
      [] OTHER -> [exc |-> "TypeError", v |-> None]

\* float(v): [exc, v]
PyFloatOf(v) ==
    CASE v.t = "float" -> [exc |-> "none", v |-> v]
      [] v.t = "int" -> [exc |-> "none", v |-> PyFloat(10 * v.i)]
      [] v.t = "bool" -> [exc |-> "none", v |-> PyFloat(IF v.b THEN 10 ELSE 0)]
      [] v.t = "str" ->
            LET r == ParseFloat(v.s) IN
            IF r.ok THEN [exc |-> "none", v |-> PyFloat(r.f)]
            ELSE [exc |-> "ValueError", v |-> None]
      [] OTHER -> [exc |-> "TypeError", v |-> None]

\* Some enumeration of a finite set (a dict's keys in iteration order).
RECURSIVE SetToSeq(_)
SetToSeq(S) == IF S = {} THEN <<>>
               ELSE LET x == CHOOSE y \in S : TRUE IN <<x>> \o SetToSeq(S \ {x})

\* "for item in v": [ok, s].  A string yields its characters, a dict its keys
\* (a key is kept whole, as one character); anything else but a list is not
\* iterable (TypeError).
Iterate(v) ==
    CASE v.t = "list" -> [ok |-> TRUE, s |-> v.s]
      [] v.t = "str" -> [ok |-> TRUE, s |-> [i \in 1..Len(v.s) |-> PyStr(<<v.s[i]>>)]]
      [] v.t = "dict" ->
            LET ks == SetToSeq(DOMAIN v.m)
            IN  [ok |-> TRUE, s |-> [i \in 1..Len(ks) |-> PyStr(<<ks[i]>>)]]
      [] OTHER -> [ok |-> FALSE, s |-> <<>>]

\* "key in v": [exc, b].  In a text the key is sought as a substring; keys
\* are kept whole, so it is found where it is one character of the text.
Contains(v, key) ==
    CASE v.t = "dict" -> [exc |-> "none", b |-> key \in DOMAIN v.m]
      [] v.t = "str" -> [exc |-> "none", b |-> \E i \in 1..Len(v.s) : v.s[i] = key]
      [] v.t = "list" ->
            [exc |-> "none", b |-> \E i \in 1..Len(v.s) : v.s[i] = PyStr(<<key>>)]
      [] OTHER -> [exc |-> "TypeError", b |-> FALSE]

\* v.get(key): [exc, v]; only a dict has the method.
PyGet(v, key) ==
    IF v.t = "dict"
    THEN [exc |-> "none", v |-> IF key \in DOMAIN v.m THEN v.m[key] ELSE None]
    ELSE [exc |-> "AttributeError", v |-> None]

(***************************************************************************)
(* fields.py: field objects.  A field object is a record of the attributes *)
(* its constructor sets, with an id that stands for its identity; its      *)
(* scratch attribute self.data lives in the variable data, under that id.  *)
(* A source, format or wrapped class that was not given is empty.          *)
(***************************************************************************)
NoField == [id |-> ""]
Field(id, kind, source, default, null) ==
    [id |-> id, kind |-> kind, source |-> source, default |-> default, null |-> null,
     format |-> <<>>, serial_format |-> <<>>, wrapped |-> "", inner |-> NoField]
BaseField(id, source, default, null) == Field(id, "BaseField", source, default, null)
CharField(id, source, default, null) == Field(id, "CharField", source, default, null)
IntegerField(id, source, default, null) == Field(id, "IntegerField", source, default, null)
FloatField(id, source, default, null) == Field(id, "FloatField", source, default, null)
BooleanField(id, source, default, null) == Field(id, "BooleanField", source, default, null)
\* kind: DateTimeField or one of its subclasses DateField, TimeField
DateTimeField(id, kind, format, serial_format, source, default, null) ==
    [Field(id, kind, source, default, null)
        EXCEPT !.format = format, !.serial_format = serial_format]
\* kind: ModelField or ModelCollectionField
WrappedObjectField(id, kind, wrapped_class, source, default, null) ==
    [Field(id, kind, source, default, null) EXCEPT !.wrapped = wrapped_class]
FieldCollectionField(id, field_instance, source, default, null) ==
    [Field(id, "FieldCollectionField", source, default, null)
        EXCEPT !.inner = field_instance]

\* The class attribute "empty" of the three fields that have one.
empty(kind) ==
    CASE kind = "CharField" -> PyStr(<<>>)
      [] kind = "IntegerField" -> PyInt(0)
      [] kind = "FloatField" -> PyFloat(0)

(***************************************************************************)
(* Dicts kept in iteration order: sequences of [k, f] pairs.               *)
(***************************************************************************)
HasKey(d, k) == \E i \in 1..Len(d) : d[i].k = k
Lookup(d, k) == d[CHOOSE i \in 1..Len(d) : d[i].k = k].f
Keys(d) == {d[i].k : i \in 1..Len(d)}
\* d[k] = f, the new key landing at place pos of the iteration order
InsertAt(d, k, f, pos) ==
    IF HasKey(d, k)
    THEN [i \in 1..Len(d) |-> IF d[i].k = k THEN [k |-> k, f |-> f] ELSE d[i]]
    ELSE SubSeq(d, 1, pos - 1) \o <<[k |-> k, f |-> f]>> \o SubSeq(d, pos, Len(d))
SetKey(m, k, v) == [x \in DOMAIN m \cup {k} |-> IF x = k THEN v ELSE m[x]]

(***************************************************************************)
(* The programs that use the library: model classes, as their class        *)
(* statements give them.  attrs is the class body: the attributes that are *)
(* fields carry the field object, the others (a method, a constant) carry  *)
(* NoField.  A program is the set of classes one module defines.           *)
(***************************************************************************)
DayFormat == <<"%Y", "-", "%m", "-", "%d">>
ClockFormat == <<"%H", ":", "%M", ":", "%S">>
UsFormat == <<"%m", "-", "%d", "-", "%Y">>
DayText == PyStr(<<"2", "0", "2", "0", "-", "0", "1", "-", "0", "2">>)
ClockText == PyStr(<<"0", "7", ":", "0", "8", ":", "0", "9">>)
Attr(k, f) == [k |-> k, f |-> f]

ClassDecl(c) ==
    CASE c = "Model" -> [base |-> "object", attrs |-> {}]
      \* a model nested in another; its field reads the key "v"
      [] c = "Nested" -> [base |-> "Model", attrs |->
            {Attr("value", CharField("Nested.value", "v", None, FALSE))}]
      [] c = "Outer" -> [base |-> "Model", attrs |->
            {Attr("when", DateTimeField("Outer.when", "DateTimeField", DayFormat, <<>>,
                                        "date", None, FALSE)),
             Attr("inner", WrappedObjectField("Outer.inner", "ModelField", "Nested",
                                              "", None, FALSE))}]
      \* a class whose instances are given a field of their own by add_field
      [] c = "Item" -> [base |-> "Model", attrs |->
            {Attr("label", CharField("Item.label", "", None, FALSE))}]
      \* a class, a subclass that declares one more field, one that declares none
      [] c = "Base" -> [base |-> "Model", attrs |->
            {Attr("name", CharField("Base.name", "", None, FALSE)),
             Attr("describe", NoField)}]
      [] c = "Sub" -> [base |-> "Base", attrs |->
            {Attr("age", IntegerField("Sub.age", "", None, FALSE))}]
      [] c = "Plain" -> [base |-> "Base", attrs |-> {Attr("describe", NoField)}]
      \* one class for each field variant, with and without a default
      [] c = "VChar" -> [base |-> "Model", attrs |->
            {Attr("f", CharField("VChar.f", "", None, FALSE))}]
      [] c = "VCharD" -> [base |-> "Model", attrs |->
            {Attr("f", CharField("VCharD.f", "", PyStr(<<"h", "i">>), FALSE))}]
      [] c = "VIntN" -> [base |-> "Model", attrs |->
            {Attr("f", IntegerField("VIntN.f", "", None, TRUE))}]
      [] c = "VFloat" -> [base |-> "Model", attrs |->
            {Attr("f", FloatField("VFloat.f", "", None, FALSE))}]
      [] c = "VBool" -> [base |-> "Model", attrs |->
            {Attr("f", BooleanField("VBool.f", "", None, FALSE))}]
      [] c = "VDateTime" -> [base |-> "Model", attrs |->
            {Attr("f", DateTimeField("VDateTime.f", "DateTimeField", DayFormat, <<>>,
                                     "", None, FALSE))}]
      [] c = "VDate" -> [base |-> "Model", attrs |->
            {Attr("f", DateTimeField("VDate.f", "DateField", DayFormat, UsFormat,
                                     "", None, FALSE))}]
      [] c = "VDateD" -> [base |-> "Model", attrs |->
            {Attr("f", DateTimeField("VDateD.f", "DateField", DayFormat, UsFormat,
                                     "", DayText, FALSE))}]
      [] c = "VTime" -> [base |-> "Model", attrs |->
            {Attr("f", DateTimeField("VTime.f", "TimeField", ClockFormat, <<>>,
                                     "", None, TRUE))}]
      [] c = "VModel" -> [base |-> "Model", attrs |->
            {Attr("f", WrappedObjectField("VModel.f", "ModelField", "VChar",
                                          "", None, FALSE))}]
      [] c = "VModels" -> [base |-> "Model", attrs |->
            {Attr("f", WrappedObjectField("VModels.f", "ModelCollectionField", "VChar",
                                          "", None, FALSE))}]
      [] c = "VModelsD" -> [base |-> "Model", attrs |->
            {Attr("f", WrappedObjectField("VModelsD.f", "ModelCollectionField", "VChar",
                                          "", List(<<>>), FALSE))}]
      [] c = "VList" -> [base |-> "Model", attrs |->
            {Attr("f", FieldCollectionField("VList.f",
                        DateTimeField("VList.f.item", "DateField", DayFormat, UsFormat,
                                      "", None, FALSE),
                        "", None, FALSE))}]

Programs == {"nested", "adhoc", "inherit", "scalars", "temporal", "wrapped"}
Classes(prog) ==
    CASE prog = "nested" -> {"Model", "Nested", "Outer"}
      [] prog = "adhoc" -> {"Model", "Item"}
      [] prog = "inherit" -> {"Model", "Base", "Sub", "Plain"}
      [] prog = "scalars" -> {"Model", "VChar", "VCharD", "VIntN", "VFloat", "VBool"}
      [] prog = "temporal" -> {"Model", "VDateTime", "VDate", "VDateD", "VTime"}
      [] prog = "wrapped" -> {"Model", "VChar", "VModel", "VModels", "VModelsD", "VList"}
AllClasses == UNION {Classes(p) : p \in Programs}

\* The field objects a program makes outside any class body: the one it hands
\* to add_field, and a scalar field of every type, default and null flag.
Scalars == {"CharField", "IntegerField", "FloatField", "BooleanField"}
Defaults(kind) ==
    CASE kind = "CharField" -> {None, PyStr(<<>>), PyStr(<<"x">>)}
      [] kind = "IntegerField" -> {None, PyInt(0), PyInt(7)}
      [] kind = "FloatField" -> {None, PyFloat(0), PyFloat(15)}
      [] kind = "BooleanField" -> {None, PyBool(FALSE), PyBool(TRUE)}
ScalarFields ==
    {Field("pool.f", kind, "", default, null) :
        kind \in Scalars, default \in UNION {Defaults(k) : k \in Scalars}, null \in BOOLEAN}
AddedField == IntegerField("pool.count", "", None, FALSE)
PoolFields == {AddedField} \cup ScalarFields

\* The fields a class body declares (a table, worked out once).
DeclaredTable == [c \in AllClasses |-> {a \in ClassDecl(c).attrs : a.f # NoField}]
DeclaredFields(c) == DeclaredTable[c]
\* Every field object: those of class bodies, the inner field of each
\* FieldCollectionField among them, and those handed to add_field.
FieldObjs ==
    LET declared == {a.f : a \in UNION {DeclaredFields(c) : c \in AllClasses}} \cup PoolFields
    IN  declared \cup {f.inner : f \in {g \in declared : g.kind = "FieldCollectionField"}}
FieldIds == {f.id : f \in FieldObjs}

\* The classes a class inherits from, itself first (type.__mro__ up to Model).
RECURSIVE MroFrom(_)
MroFrom(c) == IF c = "object" THEN <<>> ELSE <<c>> \o MroFrom(ClassDecl(c).base)
MroTable == [c \in AllClasses |-> MroFrom(c)]
Mro(c) == MroTable[c]
IsSubclass(c, of) == \E i \in 1..Len(Mro(c)) : Mro(c)[i] = of

(***************************************************************************)
(* models.py: the metaclass                                                *)
(***************************************************************************)
\* The orders in which iterating a dict with these entries can yield them.
Orders(S) ==
    {q \in [1..Cardinality(S) -> S] : \A i, j \in 1..Cardinality(S) : i # j => q[i] # q[j]}
\* Model.__metaclass__.__init__: the values cls._clsfields can have once the
\* class statement of c has run: the fields of its own body, in any order.
MetaclassInit(c) == Orders(DeclaredFields(c))
\* The class whose _clsfields the attribute _fields of c names: the metaclass
\* binds cls._fields only for a class whose body declares a field, so any other
\* class finds the one of a base class, and Model itself has none ("").
FieldsRefTable ==
    [c \in AllClasses |->
        IF \E i \in 1..Len(Mro(c)) : DeclaredFields(Mro(c)[i]) # {}
        THEN Mro(c)[CHOOSE i \in 1..Len(Mro(c)) :
                        /\ DeclaredFields(Mro(c)[i]) # {}
                        /\ \A j \in 1..(i - 1) : DeclaredFields(Mro(c)[j]) = {}]
        ELSE ""]
FieldsRef(c) == FieldsRefTable[c]
\* The attributes left on the class: the metaclass deletes the fields.
ClassAttrsTable ==
    [c \in AllClasses |->
        {a.k : a \in UNION {ClassDecl(Mro(c)[i]).attrs \ DeclaredFields(Mro(c)[i]) :
                                i \in 1..Len(Mro(c))}}]
ClassAttrs(c) == ClassAttrsTable[c]
\* hasattr(self, key), for the keys drawn here (none is a method of Model)
HasAttr(self, key) == key \in DOMAIN self.d \/ key \in ClassAttrs(self.cls)
ClassAttr == [t |-> "classattr"]
GetAttr(self, key) == IF key \in DOMAIN self.d THEN self.d[key] ELSE ClassAttr

(***************************************************************************)
(* fields.py and models.py call each other: a ModelField builds instances  *)
(* of the class it wraps, and an instance converts through its fields.     *)
(* cf is the value of every class's _clsfields, dat that of every field's  *)
(* self.data.  Every call yields [exc, v, data]: the exception it raised,  *)
(* the value it returned (for a method that changes self: self as the call *)
(* left it) and the self.data of the field objects afterwards.             *)
(***************************************************************************)
Left(exc, self, dat) == [exc |-> exc, v |-> self, data |-> dat]
WithData(r, dat) == [exc |-> r.exc, v |-> r.v, data |-> dat]
\* r, then k on what r returned; an exception raised by r propagates.
Then(r, k(_)) == IF r.exc # "none" THEN r ELSE k(r)
\* The same, the caller being left with v when r raises.
ThenOr(r, v, k(_)) == IF r.exc # "none" THEN [r EXCEPT !.v = v] ELSE k(r)
\* try: r, except exc: v
Catch(r, exc, v) == IF r.exc = exc THEN [r EXCEPT !.exc = "none", !.v = v] ELSE r

RECURSIVE populate(_, _, _, _), to_python(_, _, _), from_dict(_, _, _, _),
          Model_init(_, _, _), InitLoop(_, _, _, _), set_data(_, _, _, _),
          SetDataLoop(_, _, _, _, _), Model_setattr(_, _, _, _, _),
          PopulateItems(_, _, _, _, _), ConvertItems(_, _, _, _, _),
          ConvertEach(_, _, _, _, _), to_dict(_, _, _), ToDictLoop(_, _, _, _, _),
          to_serial(_, _, _), SerialItems(_, _, _, _), SerialEach(_, _, _, _),
          SetDataLoop_NoTest(_, _, _, _, _)

\* ModelCollectionField.populate, the loop: a dict becomes an instance of the
\* wrapped class, anything else is appended as it is.
PopulateItems(f, items, acc, cf, dat) ==
    IF items = <<>> THEN Ret(List(acc), dat)
    ELSE IF Head(items).t = "dict"
    THEN Then(from_dict(f.wrapped, Head(items), cf, dat),
              LAMBDA r : PopulateItems(f, Tail(items), Append(acc, r.v), cf, r.data))
    ELSE PopulateItems(f, Tail(items), Append(acc, Head(items)), cf, dat)

\* BaseField.populate and its overrides in ModelField and ModelCollectionField
populate(f, value, cf, dat) ==
    CASE f.kind = "ModelField" ->
            IF value.t = "dict"
            THEN Then(from_dict(f.wrapped, value, cf, dat),
                      LAMBDA r : Ret(None, [r.data EXCEPT ![f.id] = r.v]))
            ELSE Ret(None, [dat EXCEPT ![f.id] = value])
      [] f.kind = "ModelCollectionField" ->
            IF ~Iterate(value).ok THEN Raise("TypeError", dat)
            ELSE Then(PopulateItems(f, Iterate(value).s, <<>>, cf, dat),
                      LAMBDA r : Ret(None, [r.data EXCEPT ![f.id] = r.v]))
      [] OTHER -> Ret(None, [dat EXCEPT ![f.id] = value])

\* ModelCollectionField.to_python: from_dict of every item
ConvertItems(f, items, acc, cf, dat) ==
    IF items = <<>> THEN Ret(List(acc), dat)
    ELSE Then(from_dict(f.wrapped, Head(items), cf, dat),
              LAMBDA r : ConvertItems(f, Tail(items), Append(acc, r.v), cf, r.data))

\* FieldCollectionField.to_python: convert(item) for every item, on the one
\* inner field object
ConvertEach(f, items, acc, cf, dat) ==
    IF items = <<>> THEN Ret(List(acc), dat)
    ELSE Then(populate(f.inner, Head(items), cf, dat),
              LAMBDA p : Then(to_python(f.inner, cf, p.data),
              LAMBDA r : ConvertEach(f, Tail(items), Append(acc, r.v), cf, r.data)))

\* DateTimeField.to_python on the value v of self.data: [exc, v]
DateTimeField_to_python(f, v) ==
    IF v = None THEN [exc |-> "none", v |-> None]
    ELSE IF strptime(PyToStr(v), f.format).ok
    THEN [exc |-> "none", v |-> strptime(PyToStr(v), f.format).v]
    ELSE [exc |-> "ValueError", v |-> None]

\* The same without the fall back on the class attribute empty.
NoneToPython_NoEmpty(f) == IF f.null THEN None ELSE f.default

\* CharField, IntegerField and FloatField.to_python for self.data None
NoneToPython(f) == IF f.null THEN None ELSE PyOr(f.default, empty(f.kind))

\* BooleanField.to_python on the value v of self.data
BooleanField_to_python(v) ==
    CASE v.t = "str" -> PyBool(StrLower(StrStrip(v.s)) = <<"t", "r", "u", "e">>)
      [] v.t = "int" -> PyBool(v.i > 0)
      [] v.t = "bool" -> PyBool(v.b)
      [] OTHER -> PyBool(Truthy(v))

\* to_python of every field class, reading self.data
to_python(f, cf, dat) ==
    IF dat[f.id] = Unset THEN Raise("AttributeError", dat)
    ELSE CASE f.kind = "BaseField" -> Ret(dat[f.id], dat)
      [] f.kind = "CharField" ->
            IF dat[f.id] = None THEN Ret(NoneToPython(f), dat)
            ELSE Ret(PyStr(PyToStr(dat[f.id])), dat)
      [] f.kind = "IntegerField" ->
            IF dat[f.id] = None THEN Ret(NoneToPython(f), dat)
            ELSE WithData(PyIntOf(dat[f.id]), dat)
      [] f.kind = "FloatField" ->
            IF dat[f.id] = None THEN Ret(NoneToPython(f), dat)
            ELSE WithData(PyFloatOf(dat[f.id]), dat)
      [] f.kind = "BooleanField" -> Ret(BooleanField_to_python(dat[f.id]), dat)
      [] f.kind = "DateTimeField" -> WithData(DateTimeField_to_python(f, dat[f.id]), dat)
      [] f.kind = "DateField" ->
            Then(WithData(DateTimeField_to_python(f, dat[f.id]), dat),
                 LAMBDA r : IF r.v = None THEN Raise("AttributeError", dat)
                            ELSE Ret(Date(r.v.Y, r.v.m, r.v.d), dat))
      [] f.kind = "TimeField" ->
            Then(WithData(DateTimeField_to_python(f, dat[f.id]), dat),
                 LAMBDA r : IF r.v = None THEN Raise("AttributeError", dat)
                            ELSE Ret(Time(r.v.H, r.v.M, r.v.S), dat))
      [] f.kind = "ModelField" ->
            from_dict(f.wrapped, PyOr(dat[f.id], Dict(EmptyMap)), cf, dat)
      [] f.kind = "ModelCollectionField" ->
            IF ~Iterate(dat[f.id]).ok THEN Raise("TypeError", dat)
            ELSE ConvertItems(f, Iterate(dat[f.id]).s, <<>>, cf, dat)
      [] f.kind = "FieldCollectionField" ->
            IF ~Iterate(PyOr(dat[f.id], List(<<>>))).ok THEN Raise("TypeError", dat)
            ELSE ConvertEach(f, Iterate(PyOr(dat[f.id], List(<<>>))).s, <<>>, cf, dat)

\* The dict self._fields names, for an instance of class c.
Fields(c, cf) == cf[FieldsRef(c)]

\* Model.__setattr__(self, key, value)
Model_setattr(self, key, value, cf, dat) ==
    IF FieldsRef(self.cls) = "" THEN Left("AttributeError", self, dat)
    ELSE IF HasKey(Fields(self.cls, cf), key)
    THEN ThenOr(populate(Lookup(Fields(self.cls, cf), key), value, cf, dat), self,
         LAMBDA p : ThenOr(to_python(Lookup(Fields(self.cls, cf), key), cf, p.data), self,
         LAMBDA r : Left("none", [self EXCEPT !.d = SetKey(self.d, key, r.v)], r.data)))
    ELSE Left("none", [self EXCEPT !.d = SetKey(self.d, key, value)], dat)

\* Model.__init__, the loop over self._clsfields.iteritems()
InitLoop(self, items, cf, dat) ==
    IF items = <<>> THEN Left("none", self, dat)
    ELSE Then(Model_setattr(self, Head(items).k, Head(items).f.default, cf, dat),
              LAMBDA r : InitLoop(r.v, Tail(items), cf, r.data))

\* Model.__init__: cls()
Model_init(cls, cf, dat) ==
    InitLoop(Inst(cls, [k \in {"_extra"} |-> Dict(EmptyMap)]), cf[cls], cf, dat)

\* The key set_data reads for a field: field.source or name
SourceKey(item) == IF item.f.source # "" THEN item.f.source ELSE item.k

\* The same loop without the test "if key in data": every field is assigned
\* data.get(key), None for a key that is missing.
SetDataLoop_NoTest(self, items, D, cf, dat) ==
    IF items = <<>> THEN Left("none", self, dat)
    ELSE IF PyGet(D, SourceKey(Head(items))).exc # "none"
    THEN Left(PyGet(D, SourceKey(Head(items))).exc, self, dat)
    ELSE Then(Model_setattr(self, Head(items).k, PyGet(D, SourceKey(Head(items))).v,
                            cf, dat),
              LAMBDA r : SetDataLoop_NoTest(r.v, Tail(items), D, cf, r.data))

\* Model.set_data, the loop over self._clsfields.iteritems()
SetDataLoop(self, items, D, cf, dat) ==
    IF items = <<>> THEN Left("none", self, dat)
    ELSE IF Contains(D, SourceKey(Head(items))).exc # "none"
    THEN Left(Contains(D, SourceKey(Head(items))).exc, self, dat)
    ELSE IF ~Contains(D, SourceKey(Head(items))).b
    THEN SetDataLoop(self, Tail(items), D, cf, dat)
    ELSE IF PyGet(D, SourceKey(Head(items))).exc # "none"
    THEN Left(PyGet(D, SourceKey(Head(items))).exc, self, dat)
    ELSE Then(Model_setattr(self, Head(items).k, PyGet(D, SourceKey(Head(items))).v,
                            cf, dat),
              LAMBDA r : SetDataLoop(r.v, Tail(items), D, cf, r.data))

\* Model.set_data(self, data), is_json and is_binary false
set_data(self, D, cf, dat) ==
    IF D.t = "inst" /\ IsSubclass(D.cls, self.cls)
    THEN ThenOr(WithData(to_dict(D, FALSE, cf), dat), self,
                LAMBDA t : SetDataLoop(self, cf[self.cls], t.v, cf, dat))
    ELSE SetDataLoop(self, cf[self.cls], D, cf, dat)

\* Model.from_dict(cls, D), is_json false
from_dict(cls, D, cf, dat) ==
    ThenOr(Model_init(cls, cf, dat), None,
           LAMBDA i : ThenOr(set_data(i.v, D, cf, i.data), None, LAMBDA r : r))

\* ModelCollectionField.to_serial, the loop: [exc, v]
SerialItems(f, items, acc, cf) ==
    IF items = <<>> THEN [exc |-> "none", v |-> List(acc)]
    ELSE IF Head(items).t # "inst" THEN [exc |-> "AttributeError", v |-> None]
    ELSE Then(to_dict(Head(items), TRUE, cf),
              LAMBDA r : SerialItems(f, Tail(items), Append(acc, r.v), cf))

\* FieldCollectionField.to_serial, the loop: [exc, v]
SerialEach(f, items, acc, cf) ==
    IF items = <<>> THEN [exc |-> "none", v |-> List(acc)]
    ELSE Then(to_serial(f.inner, Head(items), cf),
              LAMBDA r : SerialEach(f, Tail(items), Append(acc, r.v), cf))

\* to_serial of every field class: [exc, v]
to_serial(f, v, cf) ==
    CASE f.kind \in {"DateTimeField", "DateField", "TimeField"} ->
            IF v.t \notin {"datetime", "date", "time"}
            THEN [exc |-> "AttributeError", v |-> None]
            ELSE IF f.serial_format = <<>>
            THEN [exc |-> "none", v |-> PyStr(isoformat(v, "T"))]
            ELSE [exc |-> "none", v |-> PyStr(strftime(v, f.serial_format))]
      [] f.kind = "ModelField" ->
            IF v.t # "inst" THEN [exc |-> "none", v |-> None]
            ELSE Catch(to_dict(v, TRUE, cf), "AttributeError", None)
      [] f.kind = "ModelCollectionField" ->
            IF ~Iterate(v).ok THEN [exc |-> "TypeError", v |-> None]
            ELSE SerialItems(f, Iterate(v).s, <<>>, cf)
      [] f.kind = "FieldCollectionField" ->
            IF ~Iterate(v).ok THEN [exc |-> "TypeError", v |-> None]
            ELSE SerialEach(f, Iterate(v).s, <<>>, cf)
      [] OTHER -> [exc |-> "none", v |-> v]

\* Model.to_dict, over self._fields.keys(): [exc, v]
ToDictLoop(self, items, serial, acc, cf) ==
    IF items = <<>> THEN [exc |-> "none", v |-> Dict(acc)]
    ELSE IF ~HasAttr(self, Head(items).k)
    THEN ToDictLoop(self, Tail(items), serial, acc, cf)
    ELSE IF ~serial
    THEN ToDictLoop(self, Tail(items), serial,
                    SetKey(acc, Head(items).k, GetAttr(self, Head(items).k)), cf)
    ELSE Then(to_serial(Head(items).f, GetAttr(self, Head(items).k), cf),
              LAMBDA r : ToDictLoop(self, Tail(items), serial,
                                    SetKey(acc, Head(items).k, r.v), cf))

\* Model.to_dict(self, serial): [exc, v]
to_dict(self, serial, cf) ==
    IF FieldsRef(self.cls) = "" THEN [exc |-> "AttributeError", v |-> None]
    ELSE ToDictLoop(self, Fields(self.cls, cf), serial, EmptyMap, cf)

\* The value of a number, in tenths.
IsNumber(v) == v.t \in {"int", "bool", "float"}
NumVal(v) ==
    CASE v.t = "int" -> 10 * v.i
      [] v.t = "bool" -> IF v.b THEN 10 ELSE 0
      [] v.t = "float" -> v.f

RECURSIVE PyEq(_, _, _), Model_eq(_, _, _), EqLoop(_, _, _, _), ListEq(_, _, _)

\* e and rest, on [exc, b]: rest is not evaluated once e is false or raised.
AndThen(e, rest) == IF e.exc # "none" \/ ~e.b THEN e ELSE rest

\* Model.__eq__, the loop: eq = eq and getattr(self, name) == getattr(other, name)
EqLoop(self, other, items, cf) ==
    IF items = <<>> THEN [exc |-> "none", b |-> TRUE]
    ELSE IF ~HasAttr(self, Head(items).k) \/ ~HasAttr(other, Head(items).k)
    THEN [exc |-> "AttributeError", b |-> FALSE]
    ELSE AndThen(PyEq(GetAttr(self, Head(items).k), GetAttr(other, Head(items).k), cf),
                 EqLoop(self, other, Tail(items), cf))

\* Model.__eq__(self, other): [exc, b]
Model_eq(self, other, cf) ==
    IF ~(other.t = "inst" /\ other.cls = self.cls) THEN [exc |-> "none", b |-> FALSE]
    ELSE EqLoop(self, other, cf[self.cls], cf)

ListEq(x, y, cf) ==
    IF x = <<>> THEN [exc |-> "none", b |-> TRUE]
    ELSE AndThen(PyEq(Head(x), Head(y), cf), ListEq(Tail(x), Tail(y), cf))

\* x == y in Python: [exc, b]
PyEq(x, y, cf) ==
    CASE x.t = "inst" -> Model_eq(x, y, cf)
      [] x.t # "inst" /\ y.t = "inst" -> Model_eq(y, x, cf)
      [] IsNumber(x) /\ IsNumber(y) -> [exc |-> "none", b |-> NumVal(x) = NumVal(y)]
      [] x.t = "list" /\ y.t = "list" ->
            IF Len(x.s) # Len(y.s) THEN [exc |-> "none", b |-> FALSE]
            ELSE ListEq(x.s, y.s, cf)
      [] x.t = "dict" /\ y.t = "dict" ->
            IF DOMAIN x.m # DOMAIN y.m THEN [exc |-> "none", b |-> FALSE]
            ELSE ListEq([i \in 1..Cardinality(DOMAIN x.m) |-> x.m[SetToSeq(DOMAIN x.m)[i]]],
                        [i \in 1..Cardinality(DOMAIN x.m) |-> y.m[SetToSeq(DOMAIN x.m)[i]]],
                        cf)
      [] OTHER -> [exc |-> "none", b |-> x = y]

(***************************************************************************)
(* The state machine.  A program imports its classes, then builds model    *)
(* instances and assigns to them; each action is one call into the library *)
(* and records in outcome how the call ended.                              *)
(***************************************************************************)
MaxInst == 2
Slots == 1..MaxInst
Threads == {"t1", "t2"}
NoInst == [t |-> "free"]
NoJob == [inst |-> 0]

\* Every way of giving each class of S one of its possible _clsfields: a class
\* that declares at most one field has one, the others are chosen freely.
ClsFields(S) ==
    LET many == {c \in S : Cardinality(DeclaredFields(c)) > 1}
        picks == {g \in [many -> UNION {MetaclassInit(c) : c \in many}] :
                     \A c \in many : g[c] \in MetaclassInit(c)}
    IN  {[c \in S |-> IF c \in many THEN g[c] ELSE CHOOSE o \in MetaclassInit(c) : TRUE] :
            g \in picks}

\* The program that is running: the one whose classes exist.
Prog == CHOOSE p \in Programs : Classes(p) = DOMAIN clsfields

XText == PyStr(<<"x">>)
SevenText == PyStr(<<"7">>)
Midnight == DateTime(2020, 1, 2, 0, 0, 0)
NestedRaw == Dict([k \in {"v"} |-> XText])
Pair(k, v) == [k |-> k, v |-> v]

\* The classes the program instantiates itself.
NewableOf(prog) ==
    CASE prog = "nested" -> {"Outer"}
      [] prog = "wrapped" -> {"VModel", "VModels", "VModelsD", "VList"}
      [] prog = "inherit" -> {"Sub", "Plain"}
      [] OTHER -> Classes(prog) \ {"Model"}
\* The assignments a caller makes: raw values as a decoder yields them, values
\* that are already of the field's Python type, and a name no class declares.
AssignmentsOf(prog) ==
    CASE prog = "nested" ->
            {Pair("when", DayText), Pair("when", Midnight), Pair("when", XText),
             Pair("inner", NestedRaw)}
      [] prog = "adhoc" ->
            {Pair("label", XText), Pair("extra", SevenText), Pair("extra", XText)}
      [] prog = "inherit" ->
            {Pair("name", XText), Pair("age", SevenText), Pair("age", XText)}
      [] prog = "scalars" -> {Pair("f", SevenText), Pair("f", None)}
      [] prog = "temporal" -> {Pair("f", DayText), Pair("f", ClockText)}
      [] prog = "wrapped" -> {Pair("f", List(<<DayText>>)), Pair("f", Dict(EmptyMap))}
\* The mappings a caller populates an instance from.
MappingsOf(prog) ==
    CASE prog = "nested" ->
            {Dict(EmptyMap),
             Dict([k \in {"date"} |-> DayText]),
             Dict([k \in {"when"} |-> DayText]),
             Dict([k \in {"inner"} |-> NestedRaw]),
             Dict([k \in {"date", "inner"} |-> IF k = "date" THEN XText ELSE NestedRaw])}
      [] prog = "adhoc" ->
            {Dict(EmptyMap), Dict([k \in {"label"} |-> XText]),
             Dict([k \in {"extra"} |-> SevenText])}
      [] prog = "inherit" ->
            {Dict(EmptyMap), Dict([k \in {"name"} |-> XText]),
             Dict([k \in {"name", "age"} |-> IF k = "name" THEN XText ELSE SevenText])}
      [] prog = "scalars" -> {Dict(EmptyMap), Dict([k \in {"f"} |-> SevenText])}
      [] prog = "temporal" -> {Dict(EmptyMap), Dict([k \in {"f"} |-> DayText])}
      [] prog = "wrapped" -> {Dict(EmptyMap), Dict([k \in {"f"} |-> List(<<DayText>>)])}
\* The add_field calls a caller makes.
AddedOf(prog) ==
    IF prog = "adhoc" THEN {Pair("extra", SevenText)} ELSE {}

\* The same three, as tables worked out once.
NewableTable == [p \in Programs |-> NewableOf(p)]
AssignmentsTable == [p \in Programs |-> AssignmentsOf(p)]
MappingsTable == [p \in Programs |-> MappingsOf(p)]
AddedTable == [p \in Programs |-> AddedOf(p)]
Added(prog) == AddedTable[prog]
Newable(prog) == NewableTable[prog]
Assignments(prog) == AssignmentsTable[prog]
Mappings(prog) == MappingsTable[prog]

\* A call: the operation, the slot of the instance, the argument, the exception
Call(op, inst, arg, exc) == [op |-> op, inst |-> inst, arg |-> arg, exc |-> exc]
NoArg == [t |-> "noarg"]

\* The state once a program of P has imported its classes and made the field
\* object it is going to use, one of F.
Imported(P, F) ==
    /\ \E prog \in P : clsfields \in ClsFields(Classes(prog))
    /\ data = [id \in FieldIds |-> Unset]
    /\ objs = [i \in Slots |-> NoInst]
    /\ outcome = Call("import", 0, NoArg, "none")
    /\ pool \in F
    /\ pc = [t \in Threads |-> "idle"]
    /\ job = [t \in Threads |-> NoJob]

Init == Imported(Programs, {AddedField})

\* The slot a new instance takes: the first free one.
FreeSlot(i) == objs[i] = NoInst /\ \A j \in Slots : j < i => objs[j] # NoInst

\* What a call leaves in slot i, data and outcome.
Leaves(op, i, arg, r, obj) ==
    /\ objs' = [objs EXCEPT ![i] = obj]
    /\ data' = r.data
    /\ outcome' = Call(op, i, arg, r.exc)

\* instance = cls(): a constructor that raises leaves no instance
New(i, c) ==
    /\ FreeSlot(i)
    /\ \E r \in {Model_init(c, clsfields, data)} :
         Leaves("init", i, PyStr(<<c>>), r, IF r.exc = "none" THEN r.v ELSE NoInst)
    /\ UNCHANGED <<clsfields, pool, pc, job>>

\* instance = cls.from_dict(D)
FromDict(i, c, D) ==
    /\ FreeSlot(i)
    /\ \E r \in {from_dict(c, D, clsfields, data)} :
         Leaves("from_dict", i, Pair(c, D), r, IF r.exc = "none" THEN r.v ELSE NoInst)
    /\ UNCHANGED <<clsfields, pool, pc, job>>

\* instance.set_data(D)
SetData(i, D) ==
    /\ objs[i] # NoInst
    /\ \E r \in {set_data(objs[i], D, clsfields, data)} : Leaves("set_data", i, D, r, r.v)
    /\ UNCHANGED <<clsfields, pool, pc, job>>

\* instance.key = value
SetAttr(i, key, value) ==
    /\ objs[i] # NoInst
    /\ \E r \in {Model_setattr(objs[i], key, value, clsfields, data)} :
         Leaves("setattr", i, Pair(key, value), r, r.v)
    /\ UNCHANGED <<clsfields, pool, pc, job>>

\* Model.add_field(self, key, value, field): self._fields[key] = field stores
\* into the dict that self._fields names, a class attribute, and the new key
\* lands at some place pos of that dict's iteration order.
add_field(self, key, value, field, pos, cf, dat) ==
    IF FieldsRef(self.cls) = ""
    THEN [exc |-> "AttributeError", v |-> self, data |-> dat, cf |-> cf]
    ELSE [cf |-> [cf EXCEPT ![FieldsRef(self.cls)] = InsertAt(@, key, field, pos)]]
         @@ Model_setattr(self, key, value,
                [cf EXCEPT ![FieldsRef(self.cls)] = InsertAt(@, key, field, pos)], dat)

\* instance.add_field(key, value, field)
AddField(i, key, value, field) ==
    /\ objs[i] # NoInst
    /\ \E pos \in 1..(Len(Fields(objs[i].cls, clsfields)) + 1) :
       \E r \in {add_field(objs[i], key, value, field, pos, clsfields, data)} :
         /\ Leaves("add_field", i, Pair(key, value), r, r.v)
         /\ clsfields' = r.cf
    /\ UNCHANGED <<pool, pc, job>>

Next ==
    \/ \E i \in Slots, c \in Newable(Prog) : New(i, c)
    \/ \E i \in Slots, c \in Newable(Prog), D \in Mappings(Prog) : FromDict(i, c, D)
    \/ \E i \in Slots, D \in Mappings(Prog) : SetData(i, D)
    \/ \E i \in Slots, a \in Assignments(Prog) : SetAttr(i, a.k, a.v)
    \/ \E i \in Slots, a \in Added(Prog) : AddField(i, a.k, a.v, pool)

Spec == Init /\ [][Next]_vars

(***************************************************************************)
(* Two threads, each the one owner of an instance, assign to it.  Model.   *)
(* __setattr__ calls field.populate(value) and then field.to_python(); the *)
(* interpreter may run the other thread between the two calls.  Instances  *)
(* are built while no assignment is under way.                             *)
(***************************************************************************)
Owned(t) == IF t = "t1" THEN 1 ELSE 2
ThreadPrograms == {"scalars"}
InitThreads == Imported(ThreadPrograms, {AddedField})

\* Model.__setattr__ up to and including field.populate(value); a key that is
\* no field is stored as it is, and the call is over.
Begin(t, key, value) ==
    LET i == Owned(t)
        self == objs[i]
        fields == Fields(self.cls, clsfields)
    IN  /\ pc[t] = "idle"
        /\ self # NoInst
        /\ IF HasKey(fields, key)
           THEN \E p \in {populate(Lookup(fields, key), value, clsfields, data)} :
                /\ data' = p.data
                /\ outcome' = Call("populate", i, Pair(key, value), p.exc)
                /\ pc' = [pc EXCEPT ![t] = IF p.exc = "none" THEN "populated" ELSE "idle"]
                /\ job' = [job EXCEPT ![t] = IF p.exc = "none"
                                             THEN [inst |-> i, key |-> key, value |-> value]
                                             ELSE NoJob]
                /\ UNCHANGED objs
           ELSE /\ objs' = [objs EXCEPT ![i].d = SetKey(@, key, value)]
                /\ outcome' = Call("setattr", i, Pair(key, value), "none")
                /\ UNCHANGED <<data, pc, job>>
        /\ UNCHANGED <<clsfields, pool>>

\* the rest of Model.__setattr__: self.__dict__[key] = field.to_python()
Finish(t) ==
    LET i == job[t].inst
        key == job[t].key
    IN  /\ pc[t] = "populated"
        /\ \E r \in {to_python(Lookup(Fields(objs[i].cls, clsfields), key), clsfields, data)} :
             /\ objs' = [objs EXCEPT
                            ![i].d = IF r.exc = "none" THEN SetKey(@, key, r.v) ELSE @]
             /\ data' = r.data
             /\ outcome' = Call("setattr", i, Pair(key, job[t].value), r.exc)
             /\ pc' = [pc EXCEPT ![t] = "idle"]
             /\ job' = [job EXCEPT ![t] = NoJob]
             /\ UNCHANGED <<clsfields, pool>>

NextThreads ==
    \/ \E i \in Slots, c \in Newable(Prog) : (\A t \in Threads : pc[t] = "idle") /\ New(i, c)
    \/ \E t \in Threads, a \in Assignments(Prog) : Begin(t, a.k, a.v)
    \/ \E t \in Threads : Finish(t)

SpecThreads == InitThreads /\ [][NextThreads]_vars

(***************************************************************************)
(* A field object used on its own: f.populate(value), then f.to_python().  *)
(***************************************************************************)
FieldPrograms == {"scalars"}
InitField == Imported(FieldPrograms, ScalarFields)
Returned(op, exc, v) == [op |-> op, inst |-> 0, arg |-> NoArg, exc |-> exc, v |-> v]
RawValues == {None, SevenText, XText, PyInt(7), PyBool(TRUE)}

\* pool.populate(value)
Populate(value) ==
    /\ \E p \in {populate(pool, value, clsfields, data)} :
       /\ data' = p.data
       /\ outcome' = Returned("populate", p.exc, p.v)
    /\ UNCHANGED <<clsfields, objs, pool, pc, job>>

\* pool.to_python()
ToPython ==
    /\ \E r \in {to_python(pool, clsfields, data)} :
       /\ data' = r.data
       /\ outcome' = Returned("to_python", r.exc, r.v)
    /\ UNCHANGED <<clsfields, objs, pool, pc, job>>

NextField ==
    \/ \E value \in RawValues : Populate(value)
    \/ ToPython

SpecField == InitField /\ [][NextField]_vars

(***************************************************************************)
(* Properties.                                                             *)
(***************************************************************************)
\* The value a scalar field stands for when nothing is given: its default,
\* the empty value of its type when no default is configured.
SchemaDefault(f) ==
    IF f.default # None THEN f.default
    ELSE IF f.kind = "BooleanField" THEN PyBool(FALSE) ELSE empty(f.kind)
AfterNone == outcome.op = "to_python" /\ data[pool.id] = None

\* C4, as stated: for every scalar field type, default and null flag,
\* populate(None) followed by to_python() returns the configured default when
\* null is false and None when null is true.
C4_NoneGivesDefault ==
    AfterNone =>
        /\ outcome.exc = "none"
        /\ outcome.v = IF pool.null THEN None ELSE SchemaDefault(pool)

\* C4, amended: populate(None) followed by to_python() returns, for a string,
\* integer or float field, None when null is true and otherwise the configured
\* default if that is truthy, else the empty value of the type; for a boolean
\* field it returns False whatever default and null are.
C4_NoneGivesDefaultOrEmpty ==
    AfterNone =>
        /\ outcome.exc = "none"
        /\ outcome.v = IF pool.kind = "BooleanField" THEN PyBool(FALSE)
                       ELSE IF pool.null THEN None
                       ELSE IF Truthy(pool.default) THEN pool.default
                       ELSE empty(pool.kind)

\* A boolean field with default True was populated with None and converted.
C4_Witness ==
    /\ AfterNone
    /\ pool.kind = "BooleanField" /\ pool.default = PyBool(TRUE) /\ ~pool.null
    /\ outcome.v = PyBool(FALSE)

\* The entry of a class's schema reads a key that mapping D has.
Present(item, D) == SourceKey(item) \in DOMAIN D.m
NonePresent(c, D) == \A n \in 1..Len(clsfields[c]) : ~Present(clsfields[c][n], D)
\* Every field of the schema of c whose key D lacks is in after as it was in
\* before: the same value, or no value in either.
Untouched(before, after, c, D) ==
    \A n \in 1..Len(clsfields[c]) :
        LET name == clsfields[c][n].k IN
        ~Present(clsfields[c][n], D) =>
            IF name \in DOMAIN before.d
            THEN name \in DOMAIN after.d /\ after.d[name] = before.d[name]
            ELSE name \notin DOMAIN after.d

Convert(f, v) ==
    Then(populate(f, v, clsfields, data), LAMBDA p : to_python(f, clsfields, p.data))
\* The last call was an assignment to a field of the instance's schema.
AssignedField ==
    /\ outcome.op = "setattr"
    /\ objs[outcome.inst] # NoInst
    /\ HasKey(Fields(objs[outcome.inst].cls, clsfields), outcome.arg.k)
TheField == Lookup(Fields(objs[outcome.inst].cls, clsfields), outcome.arg.k)

\* C1: when the populate -> to_python pipeline of a field raises for the value
\* assigned, the value goes to the field's to_serial: if that succeeds the
\* assignment succeeds and the value is stored unchanged, and if that fails
\* too the assignment fails with TypeError.
C1_DualPass ==
    (AssignedField /\ Convert(TheField, outcome.arg.v).exc # "none") =>
        IF to_serial(TheField, outcome.arg.v, clsfields).exc = "none"
        THEN /\ outcome.exc = "none"
             /\ objs[outcome.inst].d[outcome.arg.k] = outcome.arg.v
        ELSE outcome.exc = "TypeError"

\* C2: when a field converts a raw value r to a canonical value c, assigning c
\* to the field succeeds and leaves the instance holding c, as assigning r does.
C2_CanonicalAssignable ==
    (/\ AssignedField
     /\ \E a \in Assignments(Prog) :
            /\ a.k = outcome.arg.k
            /\ Convert(TheField, a.v).exc = "none"
            /\ Convert(TheField, a.v).v = outcome.arg.v) =>
        /\ outcome.exc = "none"
        /\ objs[outcome.inst].d[outcome.arg.k] = outcome.arg.v

\* C3: calling a model class with no data succeeds whatever fields the class
\* declares, and every scalar field then holds its default: the configured
\* one, or the empty value of its type when none is configured and the field
\* is not nullable, else None.
C3_EmptyInstance ==
    outcome.op = "init" =>
        /\ outcome.exc = "none"
        /\ \A c \in Newable(Prog) : \A a \in DeclaredFields(c) :
              (outcome.arg = PyStr(<<c>>) /\ a.f.kind \in Scalars \ {"BooleanField"}) =>
                  objs[outcome.inst].d[a.k] =
                      IF a.f.default # None THEN a.f.default
                      ELSE IF ~a.f.null THEN empty(a.f.kind) ELSE None

\* C5: when a ModelField is assigned a raw mapping, the nested instance it
\* stores holds, for every field of the nested model whose source key is in
\* the mapping, the conversion of the mapping's value under that key, also
\* when the source differs from the field's name.
C5_NestedFromMapping ==
    (/\ AssignedField
     /\ TheField.kind = "ModelField"
     /\ outcome.arg.v.t = "dict"
     /\ outcome.exc = "none") =>
        \A n \in 1..Len(clsfields[TheField.wrapped]) :
            LET item == clsfields[TheField.wrapped][n] IN
            Present(item, outcome.arg.v) =>
                objs[outcome.inst].d[outcome.arg.k].d[item.k] =
                    Convert(item.f, outcome.arg.v.m[SourceKey(item)]).v

\* The names of the fields the class statement of c declares, and of those the
\* class statements of c and of its base classes declare.
OwnNames(c) == {a.k : a \in DeclaredFields(c)}
AllNames(c) == UNION {OwnNames(Mro(c)[n]) : n \in 1..Len(Mro(c))}

\* C6: add_field on one instance registers the field on that instance only:
\* the project output of every other instance stays as it was, an instance
\* created later holds no value for the name, and assigning to the name on an
\* instance that never had it stores the value as it is.
C6_AddFieldOnInstanceOnly ==
    [][/\ \A i \in Slots, a \in Added(Prog) :
            AddField(i, a.k, a.v, pool) =>
                \A j \in Slots \ {i} :
                    objs[j] # NoInst =>
                        to_dict(objs'[j], FALSE, clsfields')
                            = to_dict(objs[j], FALSE, clsfields)
       /\ \A i \in Slots, c \in Newable(Prog) :
            (New(i, c) /\ objs'[i] # NoInst) =>
                DOMAIN objs'[i].d \subseteq AllNames(c) \cup {"_extra"}
       /\ \A i \in Slots, a \in Assignments(Prog) :
            (/\ SetAttr(i, a.k, a.v)
             /\ a.k \notin AllNames(objs[i].cls)
             /\ a.k \notin DOMAIN objs[i].d) =>
                outcome'.exc = "none" /\ objs'[i].d[a.k] = a.v]_vars

\* Instances a and b hold equal values, or both none, under every name of S.
SameValues(a, b, S) ==
    \A name \in S :
        IF name \in DOMAIN a.d /\ name \in DOMAIN b.d
        THEN PyEq(a.d[name], b.d[name], clsfields) = [exc |-> "none", b |-> TRUE]
        ELSE name \notin DOMAIN a.d /\ name \notin DOMAIN b.d

\* C7: after any sequence of build, assign and add_field calls, a == b returns
\* true exactly when a and b are of the same model class and hold equal values
\* in every field the class declares, and false otherwise; values under other
\* names never count.
C7_EqualityOverDeclaredFields ==
    \A i, j \in Slots :
        (objs[i] # NoInst /\ objs[j] # NoInst) =>
            Model_eq(objs[i], objs[j], clsfields) =
                [exc |-> "none",
                 b |-> /\ objs[i].cls = objs[j].cls
                       /\ SameValues(objs[i], objs[j], OwnNames(objs[i].cls))]

\* C9: the schema of a class holds the fields its base classes declare as well
\* as its own: a new instance of a subclass that declares a field has every
\* inherited field set, and the inherited fields are in its project output.
C9_InheritedFields ==
    (outcome.op = "init" /\ outcome.exc = "none") =>
        \A name \in AllNames(objs[outcome.inst].cls) :
            /\ name \in DOMAIN objs[outcome.inst].d
            /\ to_dict(objs[outcome.inst], FALSE, clsfields).exc = "none"
            /\ name \in DOMAIN to_dict(objs[outcome.inst], FALSE, clsfields).v.m

\* C10: when two threads assign to the same field name on two instances of
\* one class, each the one owner of its instance, every assignment that ends
\* stores the conversion of the value given to it, never that of the value the
\* other thread gave.
C10_OwnConversion ==
    (AssignedField /\ outcome.exc = "none") =>
        objs[outcome.inst].d[outcome.arg.k] = Convert(TheField, outcome.arg.v).v

====
